---------------------------- MODULE Spec2Model ----------------------------
(***************************************************************************)
(* A model of the chess rule engine and search of src/src/engine.rs and   *)
(* of the way src/src/main.rs drives it.  Boards are values; every        *)
(* operator below is a translation of the Rust function of the same name. *)
(***************************************************************************)
EXTENDS Integers, Sequences, FiniteSets, TLC

White == "White"
Black == "Black"
King == "King"
Queen == "Queen"
Rook == "Rook"
Bishop == "Bishop"
Knight == "Knight"
Pawn == "Pawn"

Colors == {White, Black}

\* Option::None of a coordinate pair or of a move; Some(x) is the tuple x itself.
None == << >>

\* pub const EMPTY: Option<Piece> = None
EMPTY == [color |-> "None", kind |-> "None"]

Piece(c, k) == [color |-> c, kind |-> k]

Idx == 0 .. 7

Squares == Idx \X Idx

InBoard(r, c) == r >= 0 /\ r < 8 /\ c >= 0 /\ c < 8

opposite_color(color) == IF color = White THEN Black ELSE White

\* The back rank of Board::new(), columns 0..7.
BackRank == <<Rook, Knight, Bishop, Queen, King, Bishop, Knight, Rook>>

BoardNew ==
  [ squares |->
      [ r \in Idx |->
          [ c \in Idx |->
              CASE r = 0 -> Piece(White, BackRank[c + 1])
                [] r = 1 -> Piece(White, Pawn)
                [] r = 6 -> Piece(Black, Pawn)
                [] r = 7 -> Piece(Black, BackRank[c + 1])
                [] OTHER -> EMPTY ] ],
    half_move_clock |-> 0,
    white_castle_possible |-> TRUE,
    black_castle_possible |-> TRUE,
    en_passant_target |-> None ]

At(b, r, c) == b.squares[r][c]

SetSq(sq, r, c, p) == [sq EXCEPT ![r][c] = p]

Mv(fr, fc, tr, tc) == << <<fr, fc>>, <<tr, tc>> >>

-----------------------------------------------------------------------------
(* Move generation *)

RECURSIVE generate_moves_in_direction_from(_, _, _, _, _, _, _, _)
generate_moves_in_direction_from(b, row, col, dr, dc, piece, new_row, new_col) ==
  IF ~InBoard(new_row, new_col) THEN << >>
  ELSE LET dest_piece == At(b, new_row, new_col) IN
       IF dest_piece # EMPTY
       THEN IF dest_piece.color # piece.color
            THEN << Mv(row, col, new_row, new_col) >>
            ELSE << >>
       ELSE << Mv(row, col, new_row, new_col) >>
            \o generate_moves_in_direction_from(b, row, col, dr, dc, piece,
                                                new_row + dr, new_col + dc)

generate_moves_in_direction(b, row, col, dr, dc, piece) ==
  generate_moves_in_direction_from(b, row, col, dr, dc, piece, row + dr, col + dc)

KnightOffsets ==
  << <<2, 1>>, <<1, 2>>, <<-1, 2>>, <<-2, 1>>,
     <<-2, -1>>, <<-1, -2>>, <<1, -2>>, <<2, -1>> >>

KingOffsets ==
  << <<-1, -1>>, <<-1, 0>>, <<-1, 1>>, <<0, -1>>,
     <<0, 1>>, <<1, -1>>, <<1, 0>>, <<1, 1>> >>

QueenDirections ==
  << <<1, 0>>, <<-1, 0>>, <<0, 1>>, <<0, -1>>,
     <<1, 1>>, <<1, -1>>, <<-1, 1>>, <<-1, -1>> >>

RookDirections == << <<1, 0>>, <<-1, 0>>, <<0, 1>>, <<0, -1>> >>

BishopDirections == << <<1, 1>>, <<1, -1>>, <<-1, 1>>, <<-1, -1>> >>

\* The moves of a knight or a king: each offset whose destination is on the
\* board and is empty or holds an enemy piece, in table order.
RECURSIVE OffsetMoves(_, _, _, _, _, _)
OffsetMoves(b, row, col, piece, offsets, i) ==
  IF i > Len(offsets) THEN << >>
  ELSE LET new_row == row + offsets[i][1]
           new_col == col + offsets[i][2]
           here == IF InBoard(new_row, new_col)
                      /\ At(b, new_row, new_col).color # piece.color
                   THEN << Mv(row, col, new_row, new_col) >>
                   ELSE << >>
       IN here \o OffsetMoves(b, row, col, piece, offsets, i + 1)

RECURSIVE SlidingMoves(_, _, _, _, _, _)
SlidingMoves(b, row, col, piece, dirs, i) ==
  IF i > Len(dirs) THEN << >>
  ELSE generate_moves_in_direction(b, row, col, dirs[i][1], dirs[i][2], piece)
       \o SlidingMoves(b, row, col, piece, dirs, i + 1)

PawnDirection(color) == IF color = White THEN 1 ELSE -1

\* The double advance allowed from row 1 whatever the pawn's color.
starting_row_of_white(color) == 1

starting_row(color) == IF color = White THEN 1 ELSE 6

PawnMoves(b, row, col, piece) ==
  LET direction == PawnDirection(piece.color)
      new_row == row + direction
      forward ==
        IF new_row >= 0 /\ new_row < 8 /\ At(b, new_row, col) = EMPTY
        THEN << Mv(row, col, new_row, col) >> ELSE << >>
      double_row == new_row + direction
      double ==
        IF row = starting_row(piece.color) /\ At(b, new_row, col) = EMPTY
           /\ double_row >= 0 /\ double_row < 8
           /\ At(b, double_row, col) = EMPTY
        THEN << Mv(row, col, double_row, col) >> ELSE << >>
      diag(dc) ==
        LET new_col == col + dc IN
        IF InBoard(new_row, new_col)
           /\ At(b, new_row, new_col) # EMPTY
           /\ At(b, new_row, new_col).color # piece.color
        THEN << Mv(row, col, new_row, new_col) >> ELSE << >>
      ep == b.en_passant_target
      en_passant ==
        IF ep # None /\ new_row = ep[1]
           /\ (col + 1 = ep[2] \/ col - 1 = ep[2])
        THEN << Mv(row, col, new_row, ep[2]) >> ELSE << >>
  IN forward \o double \o diag(-1) \o diag(1) \o en_passant

RECURSIVE generate_moves_for_piece(_, _, _)
RECURSIVE is_square_under_attack(_, _, _, _)
RECURSIVE can_castle(_, _, _)

\* The first square, rows then columns, that holds the king of `color`.
RECURSIVE find_king_from(_, _, _)
find_king_from(b, color, i) ==
  IF i > 63 THEN None
  ELSE LET piece == b.squares[i \div 8][i % 8] IN
       IF piece.kind = King /\ piece.color = color
       THEN <<i \div 8, i % 8>>
       ELSE find_king_from(b, color, i + 1)

find_king(b, color) == find_king_from(b, color, 0)

is_in_check(b, color) ==
  LET king_position == find_king(b, color) IN
  IF king_position = None THEN FALSE
  ELSE is_square_under_attack(b, king_position[1], king_position[2], color)

\* The castling candidates the Knight branch appends after the knight's own
\* moves: can_castle is asked about the knight's square.
KnightCastling(b, row, col, piece) ==
  LET side(flag) ==
        IF flag
        THEN (IF can_castle(b, <<row, col>>, <<row, 6>>)
              THEN << Mv(row, col, row, 6) >> ELSE << >>)
             \o (IF can_castle(b, <<row, col>>, <<row, 2>>)
                 THEN << Mv(row, col, row, 2) >> ELSE << >>)
        ELSE << >>
  IN side(piece.color = White /\ b.white_castle_possible)
     \o side(piece.color = Black /\ b.black_castle_possible)

generate_moves_for_piece(b, row, col) ==
  LET piece == At(b, row, col) IN
  CASE piece.kind = Pawn -> PawnMoves(b, row, col, piece)
    [] piece.kind = Knight ->
         OffsetMoves(b, row, col, piece, KnightOffsets, 1)
         \o KnightCastling(b, row, col, piece)
    [] piece.kind = King -> OffsetMoves(b, row, col, piece, KingOffsets, 1)
    [] piece.kind = Queen -> SlidingMoves(b, row, col, piece, QueenDirections, 1)
    [] piece.kind = Rook -> SlidingMoves(b, row, col, piece, RookDirections, 1)
    [] piece.kind = Bishop -> SlidingMoves(b, row, col, piece, BishopDirections, 1)
    [] OTHER -> << >>

RECURSIVE generate_all_moves_from(_, _, _)
generate_all_moves_from(b, color, i) ==
  IF i > 63 THEN << >>
  ELSE LET row == i \div 8
           col == i % 8
       IN (IF At(b, row, col).color = color
           THEN generate_moves_for_piece(b, row, col) ELSE << >>)
          \o generate_all_moves_from(b, color, i + 1)

generate_all_moves(b, color) == generate_all_moves_from(b, color, 0)

Moves(moves) == {moves[i] : i \in 1 .. Len(moves)}

Targets(moves) == {moves[i][2] : i \in 1 .. Len(moves)}

is_square_under_attack(b, row, col, color) ==
  LET opponent_color == opposite_color(color) IN
  \E s \in Squares :
    /\ At(b, s[1], s[2]).color = opponent_color
    /\ <<row, col>> \in Targets(generate_moves_for_piece(b, s[1], s[2]))

-----------------------------------------------------------------------------
(* Castling *)

CastleRange(kingside) == IF kingside THEN {5, 6} ELSE {1, 2, 3}

can_castle(b, from, to) ==
  LET from_row == from[1]
      from_col == from[2]
      to_row == to[1]
      to_col == to[2]
  IN
  IF from_col = 4 /\ (to_col = 6 \/ to_col = 2) /\ from_row = to_row
  THEN LET color == IF from_row = 0 THEN White ELSE Black
           kingside == to_col = 6
           rook_col == IF kingside THEN 7 ELSE 0
       IN /\ ~(color = White /\ ~b.white_castle_possible)
          /\ ~(color = Black /\ ~b.black_castle_possible)
          /\ At(b, from_row, from_col) = Piece(color, King)
          /\ At(b, from_row, rook_col) = Piece(color, Rook)
          /\ \A c \in CastleRange(kingside) : At(b, from_row, c) = EMPTY
          /\ ~is_in_check(b, color)
          /\ \A c \in CastleRange(kingside) :
               ~is_square_under_attack(b, from_row, c, color)
  ELSE FALSE

\* castle assigning both rights from the row instead of clearing one.
castle_assigning_rights(b, from, to) ==
  IF ~can_castle(b, from, to) THEN b
  ELSE LET row == from[1]
           from_col == from[2]
           to_col == to[2]
           kingside == to_col = 6
           rook_col == IF kingside THEN 7 ELSE 0
           new_rook_col == IF kingside THEN 5 ELSE 3
           s1 == SetSq(SetSq(b.squares, row, to_col, At(b, row, from_col)),
                       row, from_col, EMPTY)
           s2 == SetSq(SetSq(s1, row, new_rook_col, s1[row][rook_col]),
                       row, rook_col, EMPTY)
       IN [b EXCEPT !.squares = s2,
                    !.white_castle_possible = row # 0,
                    !.black_castle_possible = row = 0]

\* castle moving the king and leaving the rook in its corner.
castle_king_only(b, from, to) ==
  IF ~can_castle(b, from, to) THEN b
  ELSE LET row == from[1]
           s1 == SetSq(SetSq(b.squares, row, to[2], At(b, row, from[2])),
                       row, from[2], EMPTY)
       IN [b EXCEPT !.squares = s1,
                    !.white_castle_possible = IF row = 0 THEN FALSE ELSE @,
                    !.black_castle_possible = IF row = 0 THEN @ ELSE FALSE]

castle(b, from, to) ==
  IF ~can_castle(b, from, to) THEN b
  ELSE LET row == from[1]
           from_col == from[2]
           to_col == to[2]
           kingside == to_col = 6
           rook_col == IF kingside THEN 7 ELSE 0
           new_rook_col == IF kingside THEN 5 ELSE 3
           s1 == SetSq(SetSq(b.squares, row, to_col, At(b, row, from_col)),
                       row, from_col, EMPTY)
           s2 == SetSq(SetSq(s1, row, new_rook_col, s1[row][rook_col]),
                       row, rook_col, EMPTY)
       IN [b EXCEPT !.squares = s2,
                    !.white_castle_possible = IF row = 0 THEN FALSE ELSE @,
                    !.black_castle_possible = IF row = 0 THEN @ ELSE FALSE]

-----------------------------------------------------------------------------
(* apply_move *)

AbsDiff(x, y) == IF x > y THEN x - y ELSE y - x

apply_move(b, m) ==
  LET from_row == m[1][1]
      from_col == m[1][2]
      to_row == m[2][1]
      to_col == m[2][2]
  IN
  IF can_castle(b, m[1], m[2]) THEN castle(b, m[1], m[2])
  ELSE IF At(b, from_row, from_col) = EMPTY THEN b
  ELSE
    LET piece == At(b, from_row, from_col)
        s1 == SetSq(b.squares, from_row, from_col, EMPTY)
        resets == piece.kind = Pawn \/ s1[to_row][to_col] # EMPTY
        s2 == IF resets /\ <<to_row, to_col>> = b.en_passant_target
              THEN SetSq(s1, from_row, to_col, EMPTY) ELSE s1
        clock == IF resets THEN 0 ELSE b.half_move_clock + 1
        placed == IF piece.kind = Pawn /\ (to_row = 0 \/ to_row = 7)
                  THEN Piece(piece.color, Queen) ELSE piece
        s3 == SetSq(s2, to_row, to_col, placed)
        target == IF placed.kind = Pawn /\ AbsDiff(to_row, from_row) = 2
                  THEN <<(from_row + to_row) \div 2, from_col>>
                  ELSE None
    IN [b EXCEPT !.squares = s3,
                 !.half_move_clock = clock,
                 !.en_passant_target = target]

-----------------------------------------------------------------------------
(* Queries *)

Contains(moves, m) == \E i \in 1 .. Len(moves) : moves[i] = m

\* is_valid_move without the simulation of the move.
is_valid_move_unsimulated(b, from, to) ==
  IF from = to \/ from[1] >= 8 \/ from[2] >= 8 \/ to[1] >= 8 \/ to[2] >= 8
  THEN FALSE
  ELSE LET piece == At(b, from[1], from[2]) IN
       IF piece = EMPTY THEN FALSE
       ELSE IF can_castle(b, from, to) THEN TRUE
       ELSE IF At(b, to[1], to[2]).color = piece.color THEN FALSE
       ELSE Contains(generate_moves_for_piece(b, from[1], from[2]), <<from, to>>)

is_valid_move(b, from, to) ==
  IF from = to \/ from[1] >= 8 \/ from[2] >= 8 \/ to[1] >= 8 \/ to[2] >= 8
  THEN FALSE
  ELSE LET piece == At(b, from[1], from[2]) IN
       IF piece = EMPTY THEN FALSE
       ELSE IF can_castle(b, from, to) THEN TRUE
       ELSE IF At(b, to[1], to[2]).color = piece.color THEN FALSE
       ELSE IF ~Contains(generate_moves_for_piece(b, from[1], from[2]), <<from, to>>)
            THEN FALSE
       ELSE ~is_in_check(apply_move(b, <<from, to>>), piece.color)

\* generate_all_moves(color) filtered by is_valid_move, as is_checkmate,
\* is_stalemate and the move highlighting of main.rs compute it.
LegalMoves(b, color) ==
  SelectSeq(generate_all_moves(b, color), LAMBDA m : is_valid_move(b, m[1], m[2]))

\* Checkmate taken to be check alone.
is_checkmate_check_only(b, color) == is_in_check(b, color)

\* Checkmate taken to be check with no king move out of it.
is_checkmate_king_only(b, color) ==
  /\ is_in_check(b, color)
  /\ \A m \in Moves(generate_moves_for_piece(b, find_king(b, color)[1], find_king(b, color)[2])) :
       is_in_check(apply_move(b, m), color)

is_checkmate(b, color) ==
  IF ~is_in_check(b, color) THEN FALSE
  ELSE LET king_pos == find_king(b, color)
           king_moves == generate_moves_for_piece(b, king_pos[1], king_pos[2])
       IN IF \E i \in 1 .. Len(king_moves) :
               ~is_in_check(apply_move(b, <<king_pos, king_moves[i][2]>>), color)
          THEN FALSE
          ELSE LegalMoves(b, color) = << >>

is_stalemate(b, color) ==
  IF is_in_check(b, color) THEN FALSE
  ELSE LegalMoves(b, color) = << >>

CountPieces(b, color, kinds) ==
  Cardinality({s \in Squares : At(b, s[1], s[2]).color = color
                               /\ At(b, s[1], s[2]).kind \in kinds})

\* Material taken to be sufficient only with a pawn, rook or queen on the board.
has_major_material(b) ==
  CountPieces(b, White, {Pawn, Rook, Queen}) > 0
    \/ CountPieces(b, Black, {Pawn, Rook, Queen}) > 0

has_sufficient_material(b) ==
  LET white_major_material == CountPieces(b, White, {Pawn, Rook, Queen})
      black_major_material == CountPieces(b, Black, {Pawn, Rook, Queen})
      white_minor_material == CountPieces(b, White, {Knight, Bishop})
      black_minor_material == CountPieces(b, Black, {Knight, Bishop})
  IN
  IF white_major_material > 0 \/ black_major_material > 0 THEN TRUE
  ELSE IF white_minor_material = 0 /\ black_minor_material = 0 THEN FALSE
  ELSE IF (white_minor_material = 1 /\ black_major_material = 0
             /\ black_minor_material = 0)
          \/ (black_minor_material = 1 /\ white_major_material = 0
                /\ white_minor_material = 0)
       THEN FALSE
  ELSE IF white_major_material = 0 /\ black_major_material = 0
          /\ white_minor_material <= 1 /\ black_minor_material <= 1
       THEN FALSE
  ELSE TRUE

is_draw(b, color) ==
  is_stalemate(b, color) \/ ~has_sufficient_material(b) \/ b.half_move_clock >= 50


-----------------------------------------------------------------------------
(* The static evaluation. *)

I32Min == -2147483647 - 1
I32Max == 2147483647

Max(x, y) == IF x >= y THEN x ELSE y
Min(x, y) == IF x <= y THEN x ELSE y

Occupied(b) == {s \in Squares : At(b, s[1], s[2]) # EMPTY}

initial_pieces == 16

\* calculate_game_phase returns piece_count / (initial_pieces * 2) as a
\* float; the model keeps the numerator, the number of pieces that are no king.
calculate_game_phase(b) ==
  Cardinality({s \in Occupied(b) : At(b, s[1], s[2]).kind # King})

\* game_phase > 0.8, the test of evaluate_position for the early game.
EarlyGame(b) == calculate_game_phase(b) * 10 > 8 * (initial_pieces * 2)

get_piece_value(piece) ==
  CASE piece.kind = Pawn -> 100
    [] piece.kind = Knight -> 320
    [] piece.kind = Bishop -> 330
    [] piece.kind = Rook -> 500
    [] piece.kind = Queen -> 900
    [] piece.kind = King -> 20000

\* The row evaluate_king_safety looks for the pawn shield on.
PawnShieldRow(color, king_row) ==
  IF color = White THEN king_row + 1 ELSE king_row - 1

\* The destinations of the pieces that are not of `color` within two rows and
\* two columns of the king, one element per generated move.
KingZoneMoves(b, color, king_row, king_col) ==
  UNION { LET moves == generate_moves_for_piece(b, s[1], s[2])
          IN {<<s, i>> : i \in {j \in 1 .. Len(moves) :
                                  /\ AbsDiff(moves[j][2][1], king_row) <= 2
                                  /\ AbsDiff(moves[j][2][2], king_col) <= 2}}
          : s \in {t \in Occupied(b) : At(b, t[1], t[2]).color # color} }

\* safety_score of evaluate_king_safety, from the pawns of the shield and the
\* moves into the king's zone.
safety_score(b, shield, zone) ==
  LET OfKind(kinds) ==
        Cardinality({z \in zone : At(b, z[1][1], z[1][2]).kind \in kinds})
      attacking_pieces == Cardinality(zone)
      score == 10 * shield - 4 * OfKind({Queen}) - 2 * OfKind({Rook})
                 - OfKind({Bishop, Knight})
  IN IF attacking_pieces > 1 THEN score - attacking_pieces * 10 ELSE score

\* Defined when PawnShieldRow is a row of the board; the code indexes
\* squares[pawn_row] and panics otherwise.
evaluate_king_safety(b, color, king_row, king_col) ==
  safety_score(b,
    Cardinality({col \in Max(king_col - 1, 0) .. Min(king_col + 1, 7) :
       At(b, PawnShieldRow(color, king_row), col) = Piece(color, Pawn)}),
    KingZoneMoves(b, color, king_row, king_col))

\* The development_score of evaluate_position: 30 for each knight or bishop
\* off the row the code takes for its home row (7 for White, 0 for Black), 20
\* for each pawn on rows 3..4 and columns 2..5, in the early game only.
development_score(b) ==
  IF ~EarlyGame(b) THEN 0
  ELSE 30 * Cardinality({s \in Occupied(b) :
              LET piece == At(b, s[1], s[2])
              IN /\ piece.kind \in {Knight, Bishop}
                 /\ \/ piece.color = White /\ s[1] # 7
                    \/ piece.color = Black /\ s[1] # 0})
       + 20 * Cardinality({s \in Occupied(b) :
              /\ At(b, s[1], s[2]).kind = Pawn
              /\ s[1] \in 3 .. 4 /\ s[2] \in 2 .. 5})

\* evaluate_position panics in evaluate_king_safety when the pawn-shield row
\* of a king is off the board.
evaluate_position_panics(b) ==
  \E color \in Colors :
    LET king == find_king(b, color)
    IN king # None /\ PawnShieldRow(color, king[1]) \notin Idx

\* evaluate_position returns score + development_score, where score is the
\* king safety of White minus that of Black. The piece_score of each piece
\* (material, piece-square tables, pawn structure, bishop pair, mobility) is
\* computed in the second pass and never added to score.
king_safety(b, color, king) ==
  IF king = None THEN 0 ELSE evaluate_king_safety(b, color, king[1], king[2])

evaluate_position(b) ==
  (king_safety(b, White, find_king(b, White))
     - king_safety(b, Black, find_king(b, Black)))
  + development_score(b)


-----------------------------------------------------------------------------
(* The search: alpha_beta and the root driver of
   improved_best_move_for_color. *)

score_move(b, m) ==
  LET captured_piece == At(b, m[2][1], m[2][2])
  IN (IF captured_piece # EMPTY THEN get_piece_value(captured_piece) ELSE 0)
     + (IF m[2][1] \in 2 .. 5 /\ m[2][2] \in 2 .. 5 THEN 10 ELSE 0)

\* The keys score_move can give, highest first.
ScoreKeys ==
  << 20010, 20000, 910, 900, 510, 500, 340, 330, 320, 110, 100, 10, 0 >>

\* moves.sort_by_key(|m| -score_move(board, m)): a stable sort, so moves of
\* equal score keep the order generate_all_moves gave them.
RECURSIVE SortFrom(_, _, _)
SortFrom(b, moves, k) ==
  IF k > Len(ScoreKeys) THEN << >>
  ELSE SelectSeq(moves, LAMBDA m : score_move(b, m) = ScoreKeys[k])
       \o SortFrom(b, moves, k + 1)

sort_by_score(b, moves) == SortFrom(b, moves, 1)

\* compute_board_hash XORs one random 64-bit key per (kind, color, row, col)
\* of the occupied squares: a function of the placement alone. The model
\* takes the placement itself for the key (two placements never collide).
\* compute_board_hash keyed by the castling rights and the en-passant target
\* too.
compute_board_hash_with_state(b) ==
  <<b.squares, b.white_castle_possible, b.black_castle_possible,
    b.en_passant_target>>

compute_board_hash(b) == b.squares

Exact == "Exact"
LowerBound == "LowerBound"
UpperBound == "UpperBound"

\* TranspositionTable::new, get (through Has) and insert.
TranspositionTableNew == << >>

Has(tt, key) == key \in DOMAIN tt

TranspositionEntry(value, depth, move_type) ==
  [value |-> value, depth |-> depth, move_type |-> move_type]

insert(tt, key, value, depth, move_type) ==
  (key :> TranspositionEntry(value, depth, move_type)) @@ tt

\* What a call of alpha_beta leaves: its value and the table after it, or a
\* panic of the static evaluation unwinding through it.
Returned(value, tt) == [value |-> value, tt |-> tt, panic |-> FALSE]
Panicked(tt) == [value |-> 0, tt |-> tt, panic |-> TRUE]

\* Does the move leave the king of `color` on the board and not attacked?
\* (the test of alpha_beta and of the root tasks on the board after the move)
KingSafeAfter(new_board, color) ==
  LET king_pos == find_king(new_board, color)
  IN /\ king_pos # None
     /\ ~is_square_under_attack(new_board, king_pos[1], king_pos[2], color)

RECURSIVE alpha_beta(_, _, _, _, _, _, _)
RECURSIVE alpha_beta_loop(_, _, _, _, _, _, _, _)

\* The locals of alpha_beta while its loop runs; stop is set when the loop
\* is left by `break` or by a panic unwinding through it.
LoopState(alpha, beta, best_eval, tt, stop, panic) ==
  [alpha |-> alpha, beta |-> beta, best_eval |-> best_eval, tt |-> tt,
   stop |-> stop, panic |-> panic]

\* The end of one iteration: the window narrowed by the new best_eval, then
\* the cutoff test.
loop_narrow(alpha, beta, best_eval, tt) ==
  LoopState(alpha, beta, best_eval, tt, beta <= alpha, FALSE)

\* The iteration after the recursive call has returned `sub`.
loop_eval(st, maximizing_player, sub) ==
  IF sub.panic THEN LoopState(st.alpha, st.beta, st.best_eval, sub.tt, TRUE, TRUE)
  ELSE IF maximizing_player
  THEN loop_narrow(Max(st.alpha, Max(st.best_eval, sub.value)), st.beta,
                   Max(st.best_eval, sub.value), sub.tt)
  ELSE loop_narrow(st.alpha, Min(st.beta, Min(st.best_eval, sub.value)),
                   Min(st.best_eval, sub.value), sub.tt)

\* The iteration for one move, new_board being the clone the move is applied to.
loop_move(depth, maximizing_player, color, st, new_board) ==
  IF ~KingSafeAfter(new_board, color) THEN st
  ELSE loop_eval(st, maximizing_player,
                 alpha_beta(new_board, depth - 1, st.alpha, st.beta,
                            ~maximizing_player, opposite_color(color), st.tt))

\* The loop of alpha_beta over moves[lo] .. moves[hi], in this order: the
\* first half of the range, then the second half from the state the first
\* has left.
alpha_beta_loop(b, depth, moves, lo, hi, maximizing_player, color, st) ==
  IF lo > hi \/ st.stop THEN st
  ELSE IF lo = hi
  THEN loop_move(depth, maximizing_player, color, st, apply_move(b, moves[lo]))
  ELSE alpha_beta_loop(b, depth, moves, (lo + hi) \div 2 + 1, hi,
                       maximizing_player, color,
                       alpha_beta_loop(b, depth, moves, lo, (lo + hi) \div 2,
                                       maximizing_player, color, st))

\* The whole loop over the sorted moves.
search_moves(b, depth, moves, alpha, beta, maximizing_player, color, tt) ==
  alpha_beta_loop(b, depth, moves, 1, Len(moves), maximizing_player, color,
                  LoopState(alpha, beta,
                            IF maximizing_player THEN I32Min ELSE I32Max,
                            tt, FALSE, FALSE))

\* The bound kind alpha_beta stores: from original_alpha and the beta the
\* loop has left.
move_type(best_eval, original_alpha, beta) ==
  IF best_eval <= original_alpha THEN UpperBound
  ELSE IF best_eval >= beta THEN LowerBound
  ELSE Exact

\* The end of alpha_beta: the entry stored, best_eval returned.
store(key, depth, original_alpha, done) ==
  IF done.panic THEN Panicked(done.tt)
  ELSE Returned(done.best_eval,
                insert(done.tt, key, done.best_eval, depth,
                       move_type(done.best_eval, original_alpha, done.beta)))

\* alpha_beta past the table lookup, alpha and beta being the window the
\* lookup has left.
search_node(b, depth, original_alpha, alpha, beta, maximizing_player, color, tt) ==
  IF depth = 0
  THEN IF evaluate_position_panics(b) THEN Panicked(tt)
       ELSE Returned(evaluate_position(b), tt)
  ELSE store(compute_board_hash(b), depth, original_alpha,
             search_moves(b, depth,
                          sort_by_score(b, generate_all_moves(b, color)),
                          alpha, beta, maximizing_player, color, tt))

\* The table lookup with an entry of sufficient depth.
lookup(b, depth, alpha, beta, maximizing_player, color, tt, entry) ==
  CASE entry.move_type = Exact -> Returned(entry.value, tt)
    [] entry.move_type = LowerBound ->
         IF Max(alpha, entry.value) >= beta THEN Returned(entry.value, tt)
         ELSE search_node(b, depth, alpha, Max(alpha, entry.value), beta,
                          maximizing_player, color, tt)
    [] entry.move_type = UpperBound ->
         IF alpha >= Min(beta, entry.value) THEN Returned(entry.value, tt)
         ELSE search_node(b, depth, alpha, alpha, Min(beta, entry.value),
                          maximizing_player, color, tt)

alpha_beta(b, depth, alpha, beta, maximizing_player, color, tt) ==
  IF Has(tt, compute_board_hash(b)) /\ tt[compute_board_hash(b)].depth >= depth
  THEN lookup(b, depth, alpha, beta, maximizing_player, color, tt,
              tt[compute_board_hash(b)])
  ELSE search_node(b, depth, alpha, alpha, beta, maximizing_player, color, tt)

-----------------------------------------------------------------------------
(* The game: Board::new(), then moves accepted by is_valid_move and applied
   by apply_move, the two colors alternating (update of main.rs). *)

VARIABLES board, current_turn, ply, last, quiet_plies, moved, book,
          difficulty, search, app

vars == <<board, current_turn, ply, last, quiet_plies, moved, book,
          difficulty, search, app>>

\* Plies played by the model after the opening it starts from.
MaxPly == 1

\* The squares the kings and rooks start on.
HomeSquares == {<<0, 4>>, <<0, 0>>, <<0, 7>>, <<7, 4>>, <<7, 0>>, <<7, 7>>}

CountAll(b) == Cardinality({s \in Squares : At(b, s[1], s[2]) # EMPTY})

NoMove ==
  [move |-> None, color |-> "None", kind |-> "None", capture |-> FALSE,
   castled |-> FALSE, before |-> BoardNew]

\* ChessApp::default(): the game before any move, with the bookkeeping the
\* properties below read (the last move played, the plies since a pawn moved
\* or a piece was captured, the home squares whose piece has left).
GameStart ==
  [board |-> BoardNew, current_turn |-> White, last |-> NoMove,
   quiet_plies |-> 0, moved |-> {}]

\* One accepted move: apply_move on the board, the turn passed on.
Played(g, m) ==
  LET b == g.board
      nb == apply_move(b, m)
      piece == At(b, m[1][1], m[1][2])
      castled == can_castle(b, m[1], m[2])
      capture == CountAll(nb) < CountAll(b)
  IN [board |-> nb,
      current_turn |-> opposite_color(g.current_turn),
      last |-> [move |-> m, color |-> piece.color, kind |-> piece.kind,
                capture |-> capture, castled |-> castled, before |-> b],
      quiet_plies |-> IF piece.kind = Pawn \/ capture THEN 0
                      ELSE g.quiet_plies + 1,
      moved |-> g.moved \cup {s \in HomeSquares :
                                At(nb, s[1], s[2]) # At(b, s[1], s[2])}]

\* A move the side to move may make: its own piece, accepted by is_valid_move.
Accepted(g, m) ==
  /\ At(g.board, m[1][1], m[1][2]).color = g.current_turn
  /\ is_valid_move(g.board, m[1], m[2])

RECURSIVE Repeat(_, _)
Repeat(s, n) == IF n = 0 THEN << >> ELSE s \o Repeat(s, n - 1)

\* 1.Nf3 g5 2.e3 g4 3.Nd4 g3 4.Be2 gxh2
OpeningPawnH2 ==
  << Mv(0,6,2,5), Mv(6,6,4,6), Mv(1,4,2,4), Mv(4,6,3,6),
     Mv(2,5,3,3), Mv(3,6,2,6), Mv(0,5,1,4), Mv(2,6,1,7) >>

\* OpeningPawnH2, then 5.a3 e6 6.a4 Ke7 7.a5 f6 8.b3 h6 9.b4 Rh7
OpeningPawnRaid ==
  OpeningPawnH2 \o
  << Mv(1,0,2,0), Mv(6,4,5,4), Mv(2,0,3,0), Mv(7,4,6,4), Mv(3,0,4,0),
     Mv(6,5,5,5), Mv(1,1,2,1), Mv(6,7,5,7), Mv(2,1,3,1), Mv(7,7,6,7) >>

\* 1.e3 e6 2.Be2 Be7 3.Nf3 Nf6
OpeningDeveloped ==
  << Mv(1,4,2,4), Mv(6,4,5,4), Mv(0,5,1,4), Mv(7,5,6,4),
     Mv(0,6,2,5), Mv(7,6,5,5) >>

\* OpeningDeveloped, then 4.a4
OpeningDoubleStep == OpeningDeveloped \o << Mv(1,0,3,0) >>

\* Nd4 Nd5 Nf3 Nf6
KnightShuffle == << Mv(2,5,3,3), Mv(5,5,4,3), Mv(3,3,2,5), Mv(4,3,5,5) >>

\* OpeningDeveloped, 4.O-O O-O, then the knights go back and forth eleven
\* times: 50 plies since the last pawn move, none of them a capture.
OpeningCastledShuffled ==
  OpeningDeveloped \o << Mv(0,4,0,6), Mv(7,4,7,6) >> \o Repeat(KnightShuffle, 11)

\* 1.e4 e5 2.Qh5
OpeningQueenOut == << Mv(1,4,3,4), Mv(6,4,4,4), Mv(0,3,4,7) >>

Openings ==
  << << >>, OpeningPawnRaid, OpeningDoubleStep, OpeningCastledShuffled,
     OpeningQueenOut >>

\* No call of improved_best_move_for_color has been made.
NoSearch ==
  [phase |-> "Idle", color |-> "None", depth |-> 0, pending |-> << >>,
   tt |-> TranspositionTableNew, best_value |-> 0, best_move |-> None,
   scores |-> {}]

\* The application while a game is played: AppState::Playing, and no
\* message of a task waiting to be delivered to update.
AppPlaying == [state |-> "Playing", result |-> "None", inbox |-> {}]

Game == [board |-> board, current_turn |-> current_turn, last |-> last,
         quiet_plies |-> quiet_plies, moved |-> moved]

SetGame(g) ==
  /\ board' = g.board
  /\ current_turn' = g.current_turn
  /\ last' = g.last
  /\ quiet_plies' = g.quiet_plies
  /\ moved' = g.moved

\* ChessApp::default(), and the opening the two players are going to play.
Init ==
  /\ board = GameStart.board
  /\ current_turn = GameStart.current_turn
  /\ last = GameStart.last
  /\ quiet_plies = GameStart.quiet_plies
  /\ moved = GameStart.moved
  /\ ply = 0
  /\ book \in {Openings[i] : i \in 1 .. Len(Openings)}
  /\ difficulty = 3
  /\ search = NoSearch
  /\ app = AppPlaying

\* The destinations is_valid_move can accept from a square: those of
\* generate_moves_for_piece and the two castling destinations.
Candidates(b, from) ==
  Targets(generate_moves_for_piece(b, from[1], from[2]))
    \cup {<<from[1], 6>>, <<from[1], 2>>}

\* The next move of the opening: SquareClicked on a selected piece (White)
\* or the move BotMove applies (Black), accepted by is_valid_move.
BookMove ==
  /\ book # << >>
  /\ Accepted(Game, Head(book))
  /\ SetGame(Played(Game, Head(book)))
  /\ book' = Tail(book)
  /\ ply' = ply
  /\ UNCHANGED <<difficulty, search, app>>

\* After the opening, any accepted move of the side to move.
Move ==
  /\ book = << >>
  /\ ply < MaxPly
  /\ \E from \in Squares :
       /\ At(board, from[1], from[2]).color = current_turn
       /\ \E to \in Candidates(board, from) :
            /\ Accepted(Game, <<from, to>>)
            /\ SetGame(Played(Game, <<from, to>>))
  /\ ply' = ply + 1
  /\ book' = book
  /\ UNCHANGED <<difficulty, search, app>>

Next == BookMove \/ Move

Spec == Init /\ [][Next]_vars


-----------------------------------------------------------------------------
(* improved_best_move_for_color(board, current_turn, difficulty), called on
   the board an opening has led to. The root driver hands one task per
   generated move to the worker pool; the tasks share the transposition table
   and the best_value / best_move accumulator. A task is one step of the
   model: its alpha_beta call runs on the table the tasks completed before it
   have left. *)

\* The depths the search is called with (the slider of main.rs goes to 7).
MaxDifficulty == 3

\* The tasks the pool runs at a time: the next task to complete is one of the
\* first MaxWorkers that have not completed.
MaxWorkers == 2

\* 1.e4 e5 2.Nf3 d6 3.Bc4 Bg4 4.Nc3 g6 5.Nxe5 Bxd1 6.Bxf7+
OpeningLegalTrap ==
  << Mv(1,4,3,4), Mv(6,4,4,4), Mv(0,6,2,5), Mv(6,3,5,3), Mv(0,5,3,2),
     Mv(7,2,3,6), Mv(0,1,2,2), Mv(6,6,5,6), Mv(2,5,4,4), Mv(3,6,0,3),
     Mv(3,2,6,5) >>

\* 1.e4 e5 2.Bc4 Nc6 3.Qh5 Nf6 4.Qxf7
OpeningScholarsMate ==
  << Mv(1,4,3,4), Mv(6,4,4,4), Mv(0,5,3,2), Mv(7,1,5,2), Mv(0,3,4,7),
     Mv(7,6,5,5), Mv(4,7,6,5) >>

\* OpeningPawnH2, then 5.O-O: the king castles next to the pawn on h2.
OpeningCastleIntoPawn == OpeningPawnH2 \o << Mv(0,4,0,6) >>

SearchOpenings ==
  << OpeningLegalTrap, OpeningScholarsMate, OpeningCastleIntoPawn >>

\* The difficulty the slider is at when the i-th opening is played.
Difficulties(i) ==
  IF SearchOpenings[i] = OpeningCastleIntoPawn THEN {2} ELSE 1 .. MaxDifficulty

InitSearch ==
  /\ board = GameStart.board
  /\ current_turn = GameStart.current_turn
  /\ last = GameStart.last
  /\ quiet_plies = GameStart.quiet_plies
  /\ moved = GameStart.moved
  /\ ply = 0
  /\ \E i \in 1 .. Len(SearchOpenings) :
       /\ book = SearchOpenings[i]
       /\ difficulty \in Difficulties(i)
  /\ search = NoSearch
  /\ app = AppPlaying

UnchangedGame ==
  UNCHANGED <<board, current_turn, ply, last, quiet_plies, moved, book,
              difficulty, app>>

\* The entry of improved_best_move_for_color: an empty table, the
\* accumulator at its sentinel, the generated moves sorted by score_move.
\* `scores` keeps what the root tasks have got from alpha_beta.
SearchStart(b, color, depth) ==
  [phase |-> "Running", color |-> color, depth |-> depth,
   pending |-> sort_by_score(b, generate_all_moves(b, color)),
   tt |-> TranspositionTableNew,
   best_value |-> IF color = White THEN I32Min ELSE I32Max,
   best_move |-> None,
   scores |-> {}]

\* BotMove without its first test.
opponent_in_check_ignored(b, color) == FALSE

\* The test BotMove makes first: is the side that has just moved in check?
opponent_in_check(b, color) == is_in_check(b, opposite_color(color))

\* BotMove with the other side in check: the game ends as a win of the side
\* to move, no move is searched for.
BotMoveWins ==
  /\ book = << >>
  /\ search.phase = "Idle"
  /\ opponent_in_check(board, current_turn)
  /\ search' = [search EXCEPT !.phase = "GameOver"]
  /\ UnchangedGame

\* BotMove otherwise calls improved_best_move_for_color.
StartSearch ==
  /\ book = << >>
  /\ search.phase = "Idle"
  /\ ~opponent_in_check(board, current_turn)
  /\ search' = SearchStart(board, current_turn, difficulty)
  /\ UnchangedGame

\* A speculative move applied in place, on the board the caller has given.
speculate_in_place(b, m) == [board |-> apply_move(b, m), new_board |-> apply_move(b, m)]

\* A speculative move of a root task: new_board is a clone of the board the
\* caller has given, and the move is applied to new_board.
speculate(b, m) == [board |-> b, new_board |-> apply_move(b, m)]

UnchangedButBoard ==
  UNCHANGED <<current_turn, ply, last, quiet_plies, moved, book, difficulty,
              app>>

\* A root task without its king test.
never_skipped(m) == FALSE

\* Does the root task of move m return at its king test?
Skipped(m) == ~KingSafeAfter(speculate(board, m).new_board, search.color)

Remove(s, i) == SubSeq(s, 1, i - 1) \o SubSeq(s, i + 1, Len(s))

\* A root task whose move leaves the own king attacked (or off the board)
\* returns before it reads or writes anything shared, so when it completes
\* makes no difference: such tasks complete first, in the order of the moves.
SkipTask ==
  /\ search.phase = "Running"
  /\ \E i \in 1 .. Len(search.pending) :
       /\ Skipped(search.pending[i])
       /\ \A j \in 1 .. i - 1 : ~Skipped(search.pending[j])
       /\ search' = [search EXCEPT !.pending = Remove(search.pending, i)]
       /\ board' = speculate(board, search.pending[i]).board
  /\ UnchangedButBoard

\* The compare-and-assign of a root task on the accumulator, `done` being
\* what its alpha_beta call has returned for the i-th pending move.
accumulate(s, i, done) ==
  IF done.panic THEN [s EXCEPT !.phase = "Panicked", !.tt = done.tt]
  ELSE IF \/ s.color = White /\ done.value > s.best_value
          \/ s.color = Black /\ done.value < s.best_value
  THEN [s EXCEPT !.pending = Remove(s.pending, i), !.tt = done.tt,
                 !.best_value = done.value, !.best_move = s.pending[i],
                 !.scores = @ \cup {<<s.pending[i], done.value>>}]
  ELSE [s EXCEPT !.pending = Remove(s.pending, i), !.tt = done.tt,
                 !.scores = @ \cup {<<s.pending[i], done.value>>}]

\* `depth - 1` of a root task with depth = 0, depth being a u32: a build
\* with overflow checks panics there; a build without them wraps to
\* 4294967295 and calls alpha_beta with that depth, a call that is not
\* followed further.
underflow(s, overflow_checks) ==
  [s EXCEPT !.phase = IF overflow_checks THEN "Overflowed" ELSE "Wrapped"]

\* A root task that searches: alpha_beta on the board after the move, then
\* the compare-and-assign on the accumulator under its two locks.
RootTask ==
  /\ search.phase = "Running"
  /\ \A j \in 1 .. Len(search.pending) : ~Skipped(search.pending[j])
  /\ \E i \in 1 .. Min(MaxWorkers, Len(search.pending)) :
       /\ board' = speculate(board, search.pending[i]).board
       /\ IF search.depth = 0
          THEN \E overflow_checks \in BOOLEAN :
                 search' = underflow(search, overflow_checks)
          ELSE search' = accumulate(search, i,
                           alpha_beta(speculate(board, search.pending[i]).new_board,
                                      search.depth - 1, I32Min + 1, I32Max - 1,
                                      search.color = Black,
                                      opposite_color(search.color), search.tt))
  /\ UnchangedButBoard

\* All tasks have completed: the function returns best_move.
JoinSearch ==
  /\ search.phase = "Running"
  /\ search.pending = << >>
  /\ search' = [search EXCEPT !.phase = "Done"]
  /\ UnchangedGame

\* The game after the bot's move: over when the other side is checkmated
\* or the game is drawn.
after_bot_move(s, g) ==
  [s EXCEPT !.phase = IF \/ is_checkmate(g.board, g.current_turn)
                         \/ is_draw(g.board, g.current_turn)
                      THEN "GameOver" ELSE "Moved"]

\* BotMove after the call has returned: the move is applied and the turn
\* passed on, or, with None returned, the game ends.
BotMoveApply ==
  /\ search.phase = "Done"
  /\ IF search.best_move = None
     THEN /\ search' = [search EXCEPT !.phase = "GameOver"]
          /\ UNCHANGED <<board, current_turn, last, quiet_plies, moved>>
     ELSE /\ SetGame(Played(Game, search.best_move))
          /\ search' = after_bot_move(search, Played(Game, search.best_move))
  /\ UNCHANGED <<ply, book, difficulty, app>>

NextSearch ==
  \/ BookMove
  \/ BotMoveWins
  \/ StartSearch
  \/ SkipTask
  \/ RootTask
  \/ JoinSearch
  \/ BotMoveApply

SpecSearch == InitSearch /\ [][NextSearch]_vars


-----------------------------------------------------------------------------
(* Late in a game: boards with the two kings and a few pieces left, each of
   them a position legal play leads to, and the moves accepted from them. *)

Wh(kind) == Piece(White, kind)
Bl(kind) == Piece(Black, kind)

\* The kings on e1 and e8.
KingsHome == { <<<<0, 4>>, Wh(King)>>, <<<<7, 4>>, Bl(King)>> }

\* The white king on f7, the black king in the corner h8.
KingsCorner == { <<<<6, 5>>, Wh(King)>>, <<<<7, 7>>, Bl(King)>> }

Endgames ==
  { KingsHome,
    KingsHome \cup { <<<<3, 3>>, Wh(Knight)>> },
    KingsHome \cup { <<<<3, 4>>, Wh(Bishop)>>, <<<<4, 2>>, Bl(Knight)>> },
    KingsHome \cup { <<<<3, 3>>, Wh(Knight)>>, <<<<3, 4>>, Wh(Bishop)>> },
    KingsHome \cup { <<<<4, 2>>, Bl(Knight)>>, <<<<4, 5>>, Bl(Bishop)>> },
    KingsHome \cup { <<<<2, 0>>, Wh(Pawn)>> },
    KingsHome \cup { <<<<4, 0>>, Bl(Rook)>>, <<<<3, 3>>, Wh(Knight)>> },
    KingsCorner,
    KingsCorner \cup { <<<<5, 6>>, Wh(Queen)>> },
    KingsCorner \cup { <<<<3, 4>>, Wh(Bishop)>> },
    KingsCorner \cup { <<<<0, 7>>, Wh(Rook)>>, <<<<0, 0>>, Bl(Rook)>> },
    KingsHome \cup { <<<<0, 0>>, Wh(Rook)>>, <<<<0, 7>>, Wh(Rook)>>,
                     <<<<7, 0>>, Bl(Rook)>> } }

\* The board with the pieces of a placement; no side has castled.
BoardWith(placement, clock) ==
  [ squares |->
      [ r \in Idx |->
          [ c \in Idx |->
              IF \E p \in placement : p[1] = <<r, c>>
              THEN (CHOOSE p \in placement : p[1] = <<r, c>>)[2]
              ELSE EMPTY ] ],
    half_move_clock |-> clock,
    white_castle_possible |-> TRUE,
    black_castle_possible |-> TRUE,
    en_passant_target |-> None ]

\* The clock when the endgame is taken up: just reset, or one ply before 50.
EndgameClocks == {0, 49}

InitEndgame ==
  /\ \E placement \in Endgames : \E clock \in EndgameClocks :
       board = BoardWith(placement, clock)
  /\ current_turn \in Colors
  /\ ~is_in_check(board, opposite_color(current_turn))
  /\ last = NoMove
  /\ quiet_plies = board.half_move_clock
  /\ moved = {s \in HomeSquares : At(board, s[1], s[2]) # At(BoardNew, s[1], s[2])}
  /\ ply = 0
  /\ book = << >>
  /\ difficulty = 3
  /\ search = NoSearch
  /\ app = AppPlaying

NextEndgame == Move

SpecEndgame == InitEndgame /\ [][NextEndgame]_vars

\* Endgames improved_best_move_for_color is called on for Black (Black to
\* move, White not in check), with any depth from 0 on.
SearchEndgames ==
  { \* Kf4, Qa3 against Kd8
    { <<<<3, 5>>, Wh(King)>>, <<<<2, 0>>, Wh(Queen)>>, <<<<7, 3>>, Bl(King)>> },
    \* Kd4, Re6, Nd3 against Kh5
    { <<<<3, 3>>, Wh(King)>>, <<<<5, 4>>, Wh(Rook)>>, <<<<2, 3>>, Wh(Knight)>>,
      <<<<4, 7>>, Bl(King)>> },
    \* Kg4, Qd8, Pb4 against Kg8, Pb2
    { <<<<3, 6>>, Wh(King)>>, <<<<7, 3>>, Wh(Queen)>>, <<<<3, 1>>, Wh(Pawn)>>,
      <<<<7, 6>>, Bl(King)>>, <<<<1, 1>>, Bl(Pawn)>> },
    \* Kd7, Pe6 against Kf8
    { <<<<6, 3>>, Wh(King)>>, <<<<5, 4>>, Wh(Pawn)>>, <<<<7, 5>>, Bl(King)>> } }

InitSearchEndgame ==
  /\ \E placement \in SearchEndgames : board = BoardWith(placement, 0)
  /\ current_turn = Black
  /\ last = NoMove
  /\ quiet_plies = board.half_move_clock
  /\ moved = {s \in HomeSquares : At(board, s[1], s[2]) # At(BoardNew, s[1], s[2])}
  /\ ply = 0
  /\ book = << >>
  /\ difficulty \in 0 .. MaxDifficulty
  /\ search = NoSearch
  /\ app = AppPlaying

NextSearchEndgame == StartSearch \/ SkipTask \/ RootTask \/ JoinSearch

SpecSearchEndgame == InitSearchEndgame /\ [][NextSearchEndgame]_vars


(* Pawn captures: openings that end with a pawn able to move diagonally, and
   the moves accepted after them. *)

\* 1.e4 d5: the e-pawn can take on d5.
OpeningCentrePawns == << Mv(1,4,3,4), Mv(6,3,4,3) >>

\* 1.e4 a6 2.e5 d5: the e-pawn can take the d-pawn en passant.
OpeningEnPassantWhite == << Mv(1,4,3,4), Mv(6,0,5,0), Mv(3,4,4,4), Mv(6,3,4,3) >>

\* 1.a4 b5 2.a5 b4 3.c4: the b-pawn can take the c-pawn en passant.
OpeningEnPassantBlack ==
  << Mv(1,0,3,0), Mv(6,1,4,1), Mv(3,0,4,0), Mv(4,1,3,1), Mv(1,2,3,2) >>

\* OpeningDeveloped, then 4.a3 a5 5.O-O: Black has just advanced the a-pawn
\* two squares and White has castled.
OpeningCastleAfterDoubleStep ==
  OpeningDeveloped \o << Mv(1,0,2,0), Mv(6,0,4,0), Mv(0,4,0,6) >>

PawnOpenings ==
  << OpeningCentrePawns, OpeningEnPassantWhite, OpeningEnPassantBlack,
     OpeningCastleAfterDoubleStep >>

InitPawns ==
  /\ board = GameStart.board
  /\ current_turn = GameStart.current_turn
  /\ last = GameStart.last
  /\ quiet_plies = GameStart.quiet_plies
  /\ moved = GameStart.moved
  /\ ply = 0
  /\ book \in {PawnOpenings[i] : i \in 1 .. Len(PawnOpenings)}
  /\ difficulty = 3
  /\ search = NoSearch
  /\ app = AppPlaying

NextPawns == BookMove \/ Move

SpecPawns == InitPawns /\ [][NextPawns]_vars

-----------------------------------------------------------------------------
(* The root tasks step by step: the worker threads of the pool, the mutex of
   the transposition table and the two mutexes of the accumulator. *)

Locks == {"transposition_table", "best_value", "best_move"}

\* No thread holds the mutex.
Free == 0

Workers == 1 .. MaxWorkers

WorkerIdle == [pc |-> "idle", move |-> None, eval |-> 0]

\* The accumulator mutexes taken in an order that depends on the thread.
accumulator_locks_by_worker(w) ==
  IF w = 1 THEN << "best_value", "best_move" >> ELSE << "best_move", "best_value" >>

\* The accumulator mutexes in the order a root task locks them.
accumulator_locks(w) == << "best_value", "best_move" >>

\* The entry of improved_best_move_for_color, the threads of the pool idle
\* and the three mutexes free.
WorkersStart(b, color, depth) ==
  [phase |-> "Running", color |-> color, depth |-> depth,
   pending |-> sort_by_score(b, generate_all_moves(b, color)),
   tt |-> TranspositionTableNew,
   best_value |-> IF color = White THEN I32Min ELSE I32Max,
   best_move |-> None,
   scores |-> {},
   workers |-> [w \in Workers |-> WorkerIdle],
   locks |-> [l \in Locks |-> Free]]

Holds(s, w, l) == s.locks[l] = w

At_pc(s, w, pc) == s.workers[w].pc = pc

StartWorkers ==
  /\ search.phase = "Idle"
  /\ search' = WorkersStart(board, current_turn, difficulty)
  /\ UnchangedGame

\* An idle thread takes the next move of the list; the task returns at once
\* when the move leaves the own king attacked or off the board.
TakeTask ==
  /\ search.phase = "Running"
  /\ search.pending # << >>
  /\ \E w \in Workers :
       /\ At_pc(search, w, "idle")
       /\ search' =
            IF Skipped(Head(search.pending))
            THEN [search EXCEPT !.pending = Tail(@)]
            ELSE [search EXCEPT !.pending = Tail(@),
                                !.workers[w] = [pc |-> "alpha_beta",
                                                move |-> Head(search.pending),
                                                eval |-> 0]]
  /\ UnchangedGame

\* alpha_beta locks the table for its lookups and inserts.
LockTable ==
  /\ search.phase = "Running"
  /\ \E w \in Workers :
       /\ At_pc(search, w, "alpha_beta")
       /\ search.locks["transposition_table"] = Free
       /\ search' = [search EXCEPT !.locks["transposition_table"] = w,
                                   !.workers[w].pc = "searching"]
  /\ UnchangedGame

\* What the call of a root task leaves: the table, the eval of the task and
\* the table mutex free again (the guards of alpha_beta are temporaries of
\* the lookup and of the insert); a panic ends the call.
searched(s, w, done) ==
  IF done.panic
  THEN [s EXCEPT !.phase = "Panicked", !.tt = done.tt,
                 !.locks["transposition_table"] = Free]
  ELSE [s EXCEPT !.tt = done.tt, !.locks["transposition_table"] = Free,
                 !.workers[w].eval = done.value,
                 !.workers[w].pc = "lock_first"]

SearchTask ==
  /\ search.phase = "Running"
  /\ \E w \in Workers :
       /\ At_pc(search, w, "searching")
       /\ search' = searched(search, w,
                      alpha_beta(speculate(board, search.workers[w].move).new_board,
                                 search.depth - 1, I32Min + 1, I32Max - 1,
                                 search.color = Black,
                                 opposite_color(search.color), search.tt))
  /\ UnchangedGame

\* best_value.lock().unwrap(): the thread waits until the mutex is free.
LockFirst ==
  /\ search.phase = "Running"
  /\ \E w \in Workers :
       /\ At_pc(search, w, "lock_first")
       /\ search.locks[accumulator_locks(w)[1]] = Free
       /\ search' = [search EXCEPT !.locks[accumulator_locks(w)[1]] = w,
                                   !.workers[w].pc = "lock_second"]
  /\ UnchangedGame

\* best_move.lock().unwrap()
LockSecond ==
  /\ search.phase = "Running"
  /\ \E w \in Workers :
       /\ At_pc(search, w, "lock_second")
       /\ search.locks[accumulator_locks(w)[2]] = Free
       /\ search' = [search EXCEPT !.locks[accumulator_locks(w)[2]] = w,
                                   !.workers[w].pc = "compare"]
  /\ UnchangedGame

\* The compare-and-assign and the end of the closure, where both guards are
\* dropped.
compare_and_assign(s, w) ==
  LET eval == s.workers[w].eval
      m == s.workers[w].move
      released == [s EXCEPT !.locks["best_value"] = Free,
                            !.locks["best_move"] = Free,
                            !.workers[w] = WorkerIdle,
                            !.scores = @ \cup {<<m, eval>>}]
  IN IF \/ s.color = White /\ eval > s.best_value
        \/ s.color = Black /\ eval < s.best_value
     THEN [released EXCEPT !.best_value = eval, !.best_move = m]
     ELSE released

CompareAndAssign ==
  /\ search.phase = "Running"
  /\ \E w \in Workers :
       /\ At_pc(search, w, "compare")
       /\ search' = compare_and_assign(search, w)
  /\ UnchangedGame

\* collect() returns when every task has returned.
JoinWorkers ==
  /\ search.phase = "Running"
  /\ search.pending = << >>
  /\ \A w \in Workers : At_pc(search, w, "idle")
  /\ search' = [search EXCEPT !.phase = "Done"]
  /\ UnchangedGame

\* The largest depth the pool is followed with.
MaxWorkerDepth == 2

\* Endgames the search is called on for Black, with a depth from 1 on.
WorkerEndgames ==
  { \* Kf4, Pa3 against Kh8
    { <<<<3, 5>>, Wh(King)>>, <<<<2, 0>>, Wh(Pawn)>>, <<<<7, 7>>, Bl(King)>> },
    \* Kf3, Pa3 against Kh1
    { <<<<2, 5>>, Wh(King)>>, <<<<2, 0>>, Wh(Pawn)>>, <<<<0, 7>>, Bl(King)>> },
    \* Kf6, Ra8 against Kh8, Black in check
    { <<<<5, 5>>, Wh(King)>>, <<<<7, 0>>, Wh(Rook)>>, <<<<7, 7>>, Bl(King)>> } }

InitWorkers ==
  /\ \E placement \in WorkerEndgames : board = BoardWith(placement, 0)
  /\ current_turn = Black
  /\ last = NoMove
  /\ quiet_plies = board.half_move_clock
  /\ moved = {s \in HomeSquares : At(board, s[1], s[2]) # At(BoardNew, s[1], s[2])}
  /\ ply = 0
  /\ book = << >>
  /\ difficulty \in 1 .. MaxWorkerDepth
  /\ search = NoSearch
  /\ app = AppPlaying

NextWorkers ==
  \/ StartWorkers
  \/ TakeTask
  \/ LockTable
  \/ SearchTask
  \/ LockFirst
  \/ LockSecond
  \/ CompareAndAssign
  \/ JoinWorkers

SpecWorkers == InitWorkers /\ [][NextWorkers]_vars

-----------------------------------------------------------------------------
-----------------------------------------------------------------------------
(* Properties of the rule engine *)

\* The king's original square of a color.
KingHome(color) == IF color = White THEN <<0, 4>> ELSE <<7, 4>>

CastleRight(b, color) ==
  IF color = White THEN b.white_castle_possible ELSE b.black_castle_possible

\* C1: in every reachable position and for each color, no move of
\* generate_all_moves(color) that passes is_valid_move leaves that color's
\* king attacked on the board obtained by applying it.
C1_LegalMovesKeepKingSafe ==
  \A color \in Colors :
    \A m \in Moves(generate_all_moves(board, color)) :
      is_in_check(apply_move(board, m), color)
        => ~is_valid_move(board, m[1], m[2])

\* A position where the filter has rejected a generated move of the side to
\* move and has kept others.
C1_Witness ==
  /\ last.move # None
  /\ LegalMoves(board, current_turn) # << >>
  /\ Len(LegalMoves(board, current_turn))
       < Len(generate_all_moves(board, current_turn))

\* C2: every pair (from, to) on which is_valid_move returns true, a castling
\* accepted through can_castle included, leaves the mover's king out of check
\* on the board apply_move produces.
C2_AcceptedMoveKeepsKingSafe ==
  \A from \in Squares : \A to \in Squares :
    is_valid_move(board, from, to)
      => ~is_in_check(apply_move(board, <<from, to>>),
                      At(board, from[1], from[2]).color)

\* C3: a castling right is true only if neither that side's king nor one of
\* its rooks has left its original square or been captured there, so
\* can_castle never accepts a king or a rook that has moved before.
C3_RightsFollowKingAndRooks ==
  /\ \A color \in Colors :
       LET row == KingHome(color)[1] IN
       ({<<row, 4>>, <<row, 0>>, <<row, 7>>} \cap moved # {})
         => ~CastleRight(board, color)
  /\ \A from \in Squares : \A to \in {<<from[1], 6>>, <<from[1], 2>>} :
       can_castle(board, from, to)
         => /\ from \notin moved
            /\ <<from[1], IF to[2] = 6 THEN 7 ELSE 0>> \notin moved

\* C4: castling rights are monotonic: once white_castle_possible
\* (respectively black_castle_possible) is false, no apply_move or castle
\* makes it true again.
C4_CastlingRightsMonotonic ==
  [][ /\ ~board.white_castle_possible => ~board'.white_castle_possible
      /\ ~board.black_castle_possible => ~board'.black_castle_possible ]_vars

\* White has castled and Black has moved since.
C4_Witness ==
  /\ ~board.white_castle_possible
  /\ last.color = Black

\* The last move was a two-square pawn advance.
LastWasDoubleStep ==
  /\ last.move # None
  /\ last.kind = Pawn
  /\ AbsDiff(last.move[2][1], last.move[1][1]) = 2

\* C5: the en-passant target is Some only for the ply that follows a
\* two-square pawn advance, and then it is the square passed over; after any
\* other apply_move (quiet move, capture, castling, en-passant capture) it is
\* None.
C5_EnPassantOnePly ==
  board.en_passant_target =
    IF LastWasDoubleStep
    THEN <<(last.move[1][1] + last.move[2][1]) \div 2, last.move[1][2]>>
    ELSE None

\* C7: after 50 consecutive plies in which no pawn moved and no piece was
\* captured, castling included, half_move_clock is at least 50 and is_draw is
\* true for either color.
C7_FiftyQuietPliesDraw ==
  quiet_plies >= 50
    => /\ board.half_move_clock >= 50
       /\ is_draw(board, White)
       /\ is_draw(board, Black)

\* C8: can_castle(from, to) returns true only if the king stands on its
\* original square, the rook of its color on its original corner of that home
\* row, the side's right is still true and the squares between them are
\* empty.
C8_CastleOnlyFromHome ==
  \A from \in Squares : \A to \in Squares :
    can_castle(board, from, to)
      => LET color == At(board, from[1], from[2]).color
             rook_col == IF to[2] = 6 THEN 7 ELSE 0
         IN /\ At(board, from[1], from[2]).kind = King
            /\ color \in Colors
            /\ from = KingHome(color)
            /\ to \in {<<from[1], 6>>, <<from[1], 2>>}
            /\ At(board, from[1], rook_col) = Piece(color, Rook)
            /\ CastleRight(board, color)
            /\ \A c \in (IF rook_col = 7 THEN 5 .. 6 ELSE 1 .. 3) :
                 At(board, from[1], c) = EMPTY

\* An enemy piece could capture a king of `color` standing on (row, col): the
\* king of `from` is put there and the enemy's moves are generated.
CouldCaptureKingOn(b, from, row, col, color) ==
  LET sq == SetSq(SetSq(b.squares, from[1], from[2], EMPTY),
                  row, col, Piece(color, King))
  IN is_square_under_attack([b EXCEPT !.squares = sq], row, col, color)

\* C9: can_castle(from, to) is false whenever the king is in check, or the
\* square it passes over or the square it lands on is attacked by an enemy
\* piece, a pawn diagonally in front of that square included.
C9_NoCastleThroughAttack ==
  \A from \in Squares : \A to \in {<<from[1], 6>>, <<from[1], 2>>} :
    can_castle(board, from, to)
      => LET color == At(board, from[1], from[2]).color
             pass == (from[2] + to[2]) \div 2
         IN /\ ~is_in_check(board, color)
            /\ ~CouldCaptureKingOn(board, from, from[1], pass, color)
            /\ ~CouldCaptureKingOn(board, from, to[1], to[2], color)

MovesOfKind(b, moves, kind) ==
  SelectSeq(moves, LAMBDA m : At(b, m[1][1], m[1][2]).kind = kind)

\* C10: on Board::new() each color has exactly 20 legal moves, 16 of them
\* pawn moves and 4 knight moves.
C10_TwentyOpeningMoves ==
  board = BoardNew
    => \A color \in Colors :
         LET legal == LegalMoves(board, color) IN
         /\ Len(legal) = 20
         /\ Len(MovesOfKind(board, legal, Pawn)) = 16
         /\ Len(MovesOfKind(board, legal, Knight)) = 4

\* The starting position, where move generation has produced White's moves.
C10_Witness ==
  /\ board = BoardNew
  /\ last.move = None
  /\ Len(generate_all_moves(board, White)) = 20

\* C19: the moves generated for a king on its home square include the
\* castling destination (column 6 or column 2 of its home row) whenever
\* can_castle holds for that destination.
C19_KingMovesIncludeCastling ==
  \A color \in Colors : \A to_col \in {2, 6} :
    can_castle(board, KingHome(color), <<KingHome(color)[1], to_col>>)
      => <<KingHome(color)[1], to_col>>
           \in Targets(generate_moves_for_piece(board, KingHome(color)[1],
                                                KingHome(color)[2]))

\* The board apply_move leaves after a castling move of color from column 4
\* to to_col on row: king and rook on their new squares, their old squares
\* empty, color's right cleared, everything else as it was.
Castled(b, row, to_col, color) ==
  LET rook_col == IF to_col = 6 THEN 7 ELSE 0
      new_rook_col == IF to_col = 6 THEN 5 ELSE 3
  IN [b EXCEPT
        !.squares =
          [r \in Idx |-> [c \in Idx |->
             IF r # row \/ c \notin {4, to_col, rook_col, new_rook_col}
             THEN b.squares[r][c]
             ELSE IF c = to_col THEN Piece(color, King)
             ELSE IF c = new_rook_col THEN Piece(color, Rook)
             ELSE EMPTY]],
        !.white_castle_possible = IF color = White THEN FALSE ELSE @,
        !.black_castle_possible = IF color = Black THEN FALSE ELSE @]

\* C21: when can_castle(from, to) holds, apply_move((from, to)) moves the king
\* from column 4 to column 6 or 2 and the rook from column 7 to 5 or from
\* column 0 to 3 on the same row, leaves both origin squares empty, sets that
\* side's castling right to false, and leaves every other square and the
\* other side's castling right unchanged.
C21_CastleMovesKingAndRook ==
  last.castled =>
    /\ last.move[1][2] = 4
    /\ last.move[2][1] = last.move[1][1]
    /\ last.move[2][2] \in {2, 6}
    /\ last.kind = King
    /\ board = Castled(last.before, last.move[1][1], last.move[2][2], last.color)

\* The last move was a queenside castling.
C21_Witness ==
  /\ last.castled
  /\ last.move[2][2] = 2

\* The last move was a pawn changing column.
LastWasDiagonalPawnMove ==
  /\ last.move # None
  /\ last.kind = Pawn
  /\ last.move[1][2] # last.move[2][2]

\* The square whose piece a diagonal pawn move from `from` to `to` takes on
\* board b: the destination, or, when that is empty, the square beside the
\* pawn in the destination's column.
Victim(b, from, to) ==
  IF At(b, to[1], to[2]) # EMPTY THEN to ELSE <<from[1], to[2]>>

\* C22: every diagonal pawn move accepted by is_valid_move in a game of
\* alternating turns captures exactly one enemy piece: the enemy piece on the
\* destination, or, when the destination is the en-passant target, the enemy
\* pawn on (from row, to column), which apply_move removes; a pawn never moves
\* diagonally onto an empty square without removing an enemy pawn.
C22_DiagonalPawnMoveCaptures ==
  LastWasDiagonalPawnMove =>
    LET b == last.before
        from == last.move[1]
        to == last.move[2]
        victim == Victim(b, from, to)
    IN /\ At(b, victim[1], victim[2]).color = opposite_color(last.color)
       /\ victim # to => /\ to = b.en_passant_target
                         /\ At(b, victim[1], victim[2]).kind = Pawn
                         /\ At(board, victim[1], victim[2]) = EMPTY
       /\ CountAll(board) = CountAll(b) - 1

-----------------------------------------------------------------------------
(* Properties of the search *)

\* C6: when improved_best_move_for_color returns None, the color it searched
\* for has no legal move on the board (no move of generate_all_moves passes
\* is_valid_move).
C6_NoneOnlyWithoutLegalMove ==
  (search.phase = "Done" /\ search.best_move = None)
    => LegalMoves(board, search.color) = << >>

\* The scholar's-mate sequence has been played: 4.Qxf7 was the last move.
ScholarsMatePlayed ==
  book = << >> /\ last.move = Mv(4,7,6,5) /\ last.kind = Queen

\* C11: on a board where is_checkmate(color) is true the search returns None
\* for color; after the scholar's-mate sequence is_checkmate(Black) is true.
C11_CheckmateGetsNoMove ==
  /\ (search.phase = "Done" /\ is_checkmate(board, search.color))
       => search.best_move = None
  /\ ScholarsMatePlayed => is_checkmate(board, Black)

\* The search has returned for Black on the scholar's-mate board.
C11_Witness ==
  /\ ScholarsMatePlayed
  /\ search.phase = "Done"
  /\ search.color = Black
  /\ is_checkmate(board, Black)

\* The root moves evaluated one after another on a single thread: the tasks
\* complete in the order of the sorted moves.
RECURSIVE single_thread(_, _)
single_thread(b, s) ==
  IF s.phase # "Running" \/ s.pending = << >> THEN s
  ELSE IF ~KingSafeAfter(apply_move(b, s.pending[1]), s.color)
  THEN single_thread(b, [s EXCEPT !.pending = Tail(@)])
  ELSE single_thread(b,
         accumulate(s, 1,
           alpha_beta(apply_move(b, s.pending[1]), s.depth - 1,
                      I32Min + 1, I32Max - 1, s.color = Black,
                      opposite_color(s.color), s.tt)))

\* No two root moves have got the same score.
NoTies(scores) == \A x, y \in scores : x # y => x[2] # y[2]

\* x is not a lower score than y under the comparison of the side.
NotLower(color, x, y) == IF color = White THEN x >= y ELSE x <= y

OrderIrrelevant(s, single) ==
  (NoTies(s.scores) /\ NoTies(single.scores))
    => /\ s.best_move = single.best_move
       /\ NotLower(s.color, s.best_value, single.best_value)

\* C13: when no two legal root moves receive equal scores, the search returns
\* the same move for every completion order of the root tasks, and that move
\* is not lower-scored than the move chosen when the root moves are evaluated
\* one after another on a single thread.
C13_CompletionOrderIrrelevant ==
  search.phase = "Done"
    => OrderIrrelevant(search,
         single_thread(board, SearchStart(board, search.color, search.depth)))

\* TranspositionTable has no capacity field; this is the capacity the table
\* is measured against.
TableCapacity == 64

\* C14: the number of entries in the transposition table never exceeds a
\* fixed capacity: an insert of a new key into a table at capacity evicts an
\* entry first, so the table does not grow beyond its bound during a search.
C14_TableWithinCapacity == Cardinality(DOMAIN search.tt) <= TableCapacity

\* C15: every row and column index an engine operation uses on a board that
\* legal play leads to is in 0..=7; in particular the pawn-shield lookup of
\* the static evaluation stays on the board for a king on any row, so no
\* search ends in a panic.
C15_IndicesOnBoard == search.phase # "Panicked"

\* C16: depth zero is an ordinary base case of the search: a call of
\* improved_best_move_for_color with depth 0 completes, the root's depth - 1
\* neither aborting nor wrapping.
C16_DepthZeroBaseCase ==
  search.depth = 0 => search.phase \notin {"Overflowed", "Wrapped"}

Kings(b, color) == {s \in Squares : At(b, s[1], s[2]) = Piece(color, King)}

\* C17: in every board of a game whose moves are accepted by is_valid_move
\* (the human) or returned by improved_best_move_for_color (the bot) there
\* is at most one king of each color, and no move played has captured a king.
C17_KingsStay ==
  /\ \A color \in Colors : Cardinality(Kings(board, color)) <= 1
  /\ last.move # None
       => At(last.before, last.move[2][1], last.move[2][2]).kind # King

\* The white king has castled next to the pawn on h2 and stands attacked with
\* Black to move; the bot's turn has ended the game and both kings are on
\* the board.
C17_Witness ==
  /\ search.phase = "GameOver"
  /\ last.castled
  /\ current_turn = Black
  /\ is_in_check(board, White)
  /\ Mv(1,7,0,6) \in Moves(generate_all_moves(board, Black))
  /\ \A color \in Colors : Cardinality(Kings(board, color)) = 1

\* The phases of a call of improved_best_move_for_color, from its entry until
\* it has returned or failed.
InCall == {"Running", "Done", "Panicked", "Overflowed", "Wrapped"}

\* C18: improved_best_move_for_color never mutates the board it is given:
\* every speculative move is applied to a fresh clone, so squares,
\* half_move_clock, castling rights and en-passant target of the caller's
\* board are the same before and after the call.
C18_SearchLeavesBoard ==
  [][(search.phase \in {"Idle", "Running"} /\ search'.phase \in InCall)
       => board' = board]_vars

\* The call has returned a move after root tasks have applied moves to their
\* clones and searched below them.
C18_Witness ==
  /\ search.phase = "Done"
  /\ search.best_move # None
  /\ search.scores # {}
  /\ search.tt # TranspositionTableNew

\* The board of the first node the move loop descends into: the board after
\* the first of moves that leaves color's king on the board and unattacked
\* (None when there is no such move).
RECURSIVE first_searched(_, _, _, _)
first_searched(b, moves, i, color) ==
  IF i > Len(moves) THEN None
  ELSE IF KingSafeAfter(apply_move(b, moves[i]), color)
       THEN apply_move(b, moves[i])
       ELSE first_searched(b, moves, i + 1, color)

first_node(b, color) ==
  first_searched(b, sort_by_score(b, generate_all_moves(b, color)), 1, color)

\* The bound kind of a score against the window a node was entered with.
BoundKind(score, original_alpha, original_beta) ==
  IF score <= original_alpha THEN UpperBound
  ELSE IF score >= original_beta THEN LowerBound
  ELSE Exact

\* The entry a returned call of alpha_beta on b has left for b is of the
\* kind of its score against the window of the call.
StoresBoundKind(b, original_alpha, original_beta, done) ==
  ~done.panic =>
    /\ Has(done.tt, compute_board_hash(b))
    /\ done.tt[compute_board_hash(b)].value = done.value
    /\ done.tt[compute_board_hash(b)].move_type
         = BoundKind(done.value, original_alpha, original_beta)

\* The first minimizing node of a search for Black: the reply to the first
\* root move and White's first answer to it (the table is still empty).
FirstMinimizingNode(b) ==
  IF first_node(b, Black) = None THEN None
  ELSE first_node(first_node(b, Black), White)

\* C23: on leaving a node, alpha_beta stores the bound kind of the computed
\* score against the window the node was entered with (UpperBound if score <=
\* original alpha, LowerBound if score >= original beta, otherwise Exact); a
\* minimizing node whose score lies strictly inside its original window is
\* stored as Exact.
C23_StoredBoundKind ==
  (search.phase = "Running" /\ search.scores = {} /\ search.depth >= 3
     /\ FirstMinimizingNode(board) # None)
    => StoresBoundKind(FirstMinimizingNode(board), I32Min + 1, I32Max - 1,
                       alpha_beta(FirstMinimizingNode(board), search.depth - 2,
                                  I32Min + 1, I32Max - 1, FALSE, Black,
                                  TranspositionTableNew))

\* The en-passant targets a placement allows: the square a pawn standing on
\* its fourth row has passed, its starting square being empty.
EnPassantTargets(b) ==
  {<<2, c>> : c \in {c \in Idx : /\ At(b, 3, c) = Piece(White, Pawn)
                                 /\ At(b, 2, c) = EMPTY
                                 /\ At(b, 1, c) = EMPTY}}
  \cup {<<5, c>> : c \in {c \in Idx : /\ At(b, 4, c) = Piece(Black, Pawn)
                                      /\ At(b, 5, c) = EMPTY
                                      /\ At(b, 6, c) = EMPTY}}

\* The boards with the squares of b: any castling rights, any en-passant
\* target the placement allows.
SamePlacement(b) ==
  {[b EXCEPT !.white_castle_possible = w, !.black_castle_possible = k,
             !.en_passant_target = t] :
     w \in BOOLEAN, k \in BOOLEAN, t \in {None} \cup EnPassantTargets(b)}

\* An Exact entry stored for b is what alpha_beta returns, at the entry's
\* depth, for every board with the squares of b and either side to move.
EntryServesPlacement(b, tt) ==
  (Has(tt, compute_board_hash(b)) /\ tt[compute_board_hash(b)].move_type = Exact)
    => \A other \in SamePlacement(b) :
         /\ compute_board_hash(other) = compute_board_hash(b)
         /\ \A color \in Colors :
              alpha_beta(other, tt[compute_board_hash(b)].depth,
                         I32Min + 1, I32Max - 1, color = White, color, tt)
                = Returned(tt[compute_board_hash(b)].value, tt)

\* C24: compute_board_hash depends only on the piece placement: two boards
\* with identical squares but a different side to move, different castling
\* rights or a different en-passant target get the same PositionKey, so
\* alpha_beta returns for one of them the transposition entry stored for the
\* other.
C24_KeyIsPlacementOnly ==
  search.phase = "Done" =>
    \A s \in search.scores :
      EntryServesPlacement(apply_move(board, s[1]), search.tt)

\* A search has stored an Exact entry for the board after a root move (White
\* to move there), and searching the same squares with Black to move and an
\* empty table gives another value than the entry.
C24_Witness ==
  /\ search.phase = "Done"
  /\ \E s \in search.scores :
       /\ Has(search.tt, compute_board_hash(apply_move(board, s[1])))
       /\ search.tt[compute_board_hash(apply_move(board, s[1]))].move_type = Exact
       /\ search.tt[compute_board_hash(apply_move(board, s[1]))].depth = 1
       /\ alpha_beta(apply_move(board, s[1]), 1, I32Min + 1, I32Max - 1, FALSE,
                     Black, TranspositionTableNew).value
            # search.tt[compute_board_hash(apply_move(board, s[1]))].value

\* The boards a node descends into: after every generated move that leaves
\* color's king on the board and unattacked.
searched_boards(b, color) ==
  {nb \in {apply_move(b, m) : m \in Moves(generate_all_moves(b, color))} :
     KingSafeAfter(nb, color)}

\* The best of the values of the boards below a node (<<v>>, or None when
\* one of the evaluations panics); the sentinel when there is none.
best_of(values, maximizing_player) ==
  IF None \in values THEN None
  ELSE IF maximizing_player
       THEN << CHOOSE v \in {x[1] : x \in values} \cup {I32Min} :
                 \A x \in values : x[1] <= v >>
       ELSE << CHOOSE v \in {x[1] : x \in values} \cup {I32Max} :
                 \A x \in values : v <= x[1] >>

\* Depth-limited minimax with the static evaluation of alpha_beta: no window,
\* no cut-off, no table.
RECURSIVE minimax(_, _, _, _)
minimax(b, depth, maximizing_player, color) ==
  IF depth = 0
  THEN IF evaluate_position_panics(b) THEN None ELSE << evaluate_position(b) >>
  ELSE best_of({minimax(nb, depth - 1, ~maximizing_player, opposite_color(color)) :
                  nb \in searched_boards(b, color)},
               maximizing_player)

\* The value the search has given a root move is the minimax value of the
\* board the move leads to.
ScoredAsMinimax(b, s, depth) ==
  minimax(apply_move(b, s[1]), depth - 1, TRUE, White) \in {None, << s[2] >>}

\* C25: the value improved_best_move_for_color assigns to each legal root
\* move equals the plain depth-limited minimax value (same static evaluation,
\* no pruning, no transposition table) of the resulting position at
\* depth - 1, so the returned move is a minimax-optimal move for color at the
\* given depth.
C25_ScoresAreMinimax ==
  (search.phase = "Done" /\ search.depth >= 1) =>
    \A s \in search.scores : ScoredAsMinimax(board, s, search.depth)

\* The board without the piece on square s.
Without(b, s) == [b EXCEPT !.squares = SetSq(b.squares, s[1], s[2], EMPTY)]

\* The king-safety terms and the development term of evaluate_position are
\* the same on both boards.
SameOtherTerms(b1, b2) ==
  /\ \A color \in Colors :
       king_safety(b1, color, find_king(b1, color))
         = king_safety(b2, color, find_king(b2, color))
  /\ development_score(b1) = development_score(b2)

\* C26: the static evaluation includes the material sum signed by color: for
\* two boards that differ only in the presence of one non-king White
\* (respectively Black) piece that does not change the king-safety or
\* development terms, evaluate_position is strictly higher (respectively
\* lower) on the board that has the piece.
C26_MaterialCounts ==
  ~evaluate_position_panics(board) =>
    \A s \in Occupied(board) :
      (At(board, s[1], s[2]).kind # King /\ SameOtherTerms(board, Without(board, s)))
        => IF At(board, s[1], s[2]).color = White
           THEN evaluate_position(board) > evaluate_position(Without(board, s))
           ELSE evaluate_position(board) < evaluate_position(Without(board, s))

\* A thread holds the mutexes its place in the closure says, and no other:
\* best_value before best_move, both across the compare-and-assign, the
\* table mutex never together with one of the accumulator.
LocksAsInClosure(s) ==
  \A w \in Workers :
    /\ Holds(s, w, "transposition_table") <=> At_pc(s, w, "searching")
    /\ Holds(s, w, "best_value") <=> s.workers[w].pc \in {"lock_second", "compare"}
    /\ Holds(s, w, "best_move") <=> At_pc(s, w, "compare")

\* The stored move has been given the stored value.
StoredMoveHasStoredValue(s) ==
  s.best_move # None => <<s.best_move, s.best_value>> \in s.scores

\* A thread of the pool can take a step, or every task has returned: no
\* thread waits for a mutex that is never freed.
CanStep(s) ==
  \/ \E w \in Workers :
       \/ At_pc(s, w, "idle") /\ s.pending # << >>
       \/ At_pc(s, w, "alpha_beta") /\ s.locks["transposition_table"] = Free
       \/ At_pc(s, w, "searching")
       \/ At_pc(s, w, "lock_first") /\ s.locks[accumulator_locks(w)[1]] = Free
       \/ At_pc(s, w, "lock_second") /\ s.locks[accumulator_locks(w)[2]] = Free
       \/ At_pc(s, w, "compare")
  \/ s.pending = << >> /\ \A w \in Workers : At_pc(s, w, "idle")

\* C27: the parallel root workers cannot deadlock and their accumulator
\* update is atomic: every worker acquires the best-value lock and then the
\* best-move lock and holds both across the compare-and-assign, never holds
\* the transposition-table lock while acquiring an accumulator lock or the
\* reverse, and when all workers have finished the stored move is one whose
\* evaluation equals the stored best value.
C27_WorkersFinishConsistently ==
  /\ search.phase = "Running" => CanStep(search) /\ LocksAsInClosure(search)
  /\ search.phase = "Done" => /\ LocksAsInClosure(search)
                              /\ StoredMoveHasStoredValue(search)
                              /\ \A l \in Locks : search.locks[l] = Free

\* One thread is inside the compare-and-assign while another waits for the
\* best_value mutex.
C27_Witness ==
  /\ search.phase = "Running"
  /\ \E w1, w2 \in Workers :
       /\ At_pc(search, w1, "compare")
       /\ At_pc(search, w2, "lock_first")

\* C28: whenever improved_best_move_for_color(board, color, depth) returns
\* Some((from, to)), the square from holds a piece of color on board and
\* is_valid_move(from, to) is true on board, so the returned move never
\* leaves color's own king attacked.
C28_ReturnedMoveIsValid ==
  (search.phase = "Done" /\ search.best_move # None) =>
    /\ At(board, search.best_move[1][1], search.best_move[1][2]).color = search.color
    /\ is_valid_move(board, search.best_move[1], search.best_move[2])
    /\ ~is_in_check(apply_move(board, search.best_move), search.color)

\* The search has returned a move for a side that is in check and has
\* generated moves that do not meet the check.
C28_Witness ==
  /\ search.phase = "Done"
  /\ search.best_move # None
  /\ is_in_check(board, search.color)
  /\ \E m \in Moves(generate_all_moves(board, search.color)) :
       ~is_valid_move(board, m[1], m[2])

\* The color a step of BotMove that ends the game declares beaten: the side
\* found in check at the start of BotMove, the bot when its search has
\* returned None, the side the bot's move has checkmated; "None" for a draw.
Loser ==
  IF search.phase = "Idle" THEN opposite_color(current_turn)
  ELSE IF search.best_move = None THEN current_turn
  ELSE IF is_checkmate(board', current_turn') THEN current_turn'
  ELSE "None"

\* C29: a game is declared won by a color (EndGame(Winner(c))) only when the
\* opposing color is checkmated on the current board: neither a None result
\* of the bot's search nor the check test at the start of BotMove ends a game
\* in which the losing side still has a legal move.
C29_WinOnlyByCheckmate ==
  [][ (search.phase # "GameOver" /\ search'.phase = "GameOver" /\ Loser # "None")
        => /\ is_checkmate(board', Loser)
           /\ LegalMoves(board', Loser) = << >> ]_vars

-----------------------------------------------------------------------------
(* update(app, message) of main.rs. SquareClicked, DifficultySelected and
   Restart come from the buttons of the view; BotMove and EndGame are the
   messages of the tasks update returns (Task::perform), which the runtime
   delivers to update some time after the call that has returned them. *)

\* Moves of White the application is followed for.
MaxClicks == 2

\* The largest value the slider is left at.
MaxSlider == 2

\* Task::perform(async { () }, |_| message): message is on its way to update.
perform(a, message) == [a EXCEPT !.inbox = @ \cup {message}]

\* The runtime hands message to update.
delivered(a, message) == [a EXCEPT !.inbox = @ \ {message}]

BotMoveMessage == << "BotMove" >>

EndGameMessage(result) == << "EndGame", result >>

\* The task SquareClicked returns after White's move to square `to`.
square_clicked_task(g, to) ==
  IF \/ is_checkmate(g.board, g.current_turn)
     \/ find_king(g.board, g.current_turn) = to
  THEN EndGameMessage(opposite_color(g.current_turn))
  ELSE IF is_draw(g.board, g.current_turn) THEN EndGameMessage("Draw")
  ELSE BotMoveMessage

\* Message::SquareClicked on a destination, a piece of White being
\* selected: the move is applied when it is White's turn, the state is
\* Playing and is_valid_move accepts it; nothing happens otherwise.
SquareClicked ==
  \E from \in Squares :
    /\ At(board, from[1], from[2]).color = White
    /\ \E to \in Squares :
         IF /\ current_turn = White
            /\ app.state = "Playing"
            /\ is_valid_move(board, from, to)
         THEN /\ ply < MaxClicks
              /\ SetGame(Played(Game, <<from, to>>))
              /\ app' = perform(app, square_clicked_task(Played(Game, <<from, to>>), to))
              /\ ply' = ply + 1
              /\ UNCHANGED <<book, difficulty, search>>
         ELSE UNCHANGED vars

\* improved_best_move_for_color(&app.board, Color::Black, app.difficulty).
improved_best_move_for_color(b, color, depth) ==
  single_thread(b, SearchStart(b, color, depth))

\* The tasks BotMove returns after the move of the bot.
bot_moved(a, g) ==
  IF is_checkmate(g.board, g.current_turn)
  THEN perform(a, EndGameMessage(opposite_color(g.current_turn)))
  ELSE IF is_draw(g.board, g.current_turn)
  THEN perform(a, EndGameMessage("Draw"))
  ELSE a

\* BotMove once the search has returned s; a search that has panicked
\* returns nothing.
BotMoveReturned(s) ==
  /\ s.phase # "Panicked"
  /\ IF s.best_move = None
     THEN /\ app' = perform(delivered(app, BotMoveMessage), EndGameMessage(White))
          /\ UNCHANGED <<board, current_turn, last, quiet_plies, moved>>
     ELSE /\ SetGame(Played(Game, s.best_move))
          /\ app' = bot_moved(delivered(app, BotMoveMessage),
                              Played(Game, s.best_move))

\* Message::BotMove: whatever the state of the application is, a move of
\* the bot is looked for and applied when it is Black's turn.
BotMove ==
  /\ BotMoveMessage \in app.inbox
  /\ IF current_turn # Black
     THEN /\ app' = delivered(app, BotMoveMessage)
          /\ UNCHANGED <<board, current_turn, last, quiet_plies, moved>>
     ELSE IF is_in_check(board, opposite_color(current_turn))
     THEN /\ app' = perform(delivered(app, BotMoveMessage), EndGameMessage(Black))
          /\ UNCHANGED <<board, current_turn, last, quiet_plies, moved>>
     ELSE BotMoveReturned(improved_best_move_for_color(board, Black, difficulty))
  /\ UNCHANGED <<ply, book, difficulty, search>>

\* Message::EndGame(result).
EndGame ==
  /\ \E message \in app.inbox :
       /\ message[1] = "EndGame"
       /\ app' = [delivered(app, message) EXCEPT !.state = "GameOver",
                                                  !.result = message[2]]
  /\ UNCHANGED <<board, current_turn, ply, last, quiet_plies, moved, book,
                 difficulty, search>>

\* Message::Restart, of the buttons of Playing and GameOver:
\* *app = ChessApp::default(). No click is followed in the new game.
Restart ==
  /\ app.state \in {"Playing", "GameOver"}
  /\ SetGame(GameStart)
  /\ difficulty' = 3
  /\ app' = [app EXCEPT !.state = "SelectingDifficulty", !.result = "None"]
  /\ ply' = MaxClicks
  /\ UNCHANGED <<book, search>>

\* Message::DifficultySelected, of the button of SelectingDifficulty.
DifficultySelected ==
  /\ app.state = "SelectingDifficulty"
  /\ \E slider_value \in 1 .. MaxSlider : difficulty' = slider_value
  /\ app' = [app EXCEPT !.state = "Playing"]
  /\ UNCHANGED <<board, current_turn, ply, last, quiet_plies, moved, book,
                 search>>

\* Kf4, Pa3 against Kh8.
AppEndgame ==
  { <<<<3, 5>>, Wh(King)>>, <<<<2, 0>>, Wh(Pawn)>>, <<<<7, 7>>, Bl(King)>> }

\* The clock when the game is taken up: two plies before 50.
AppClock == 48

\* A game against the bot that has come to an endgame, White to move.
InitApp ==
  /\ board = BoardWith(AppEndgame, AppClock)
  /\ current_turn = White
  /\ last = NoMove
  /\ quiet_plies = board.half_move_clock
  /\ moved = {s \in HomeSquares : At(board, s[1], s[2]) # At(BoardNew, s[1], s[2])}
  /\ ply = 0
  /\ book = << >>
  /\ difficulty \in 1 .. MaxSlider
  /\ search = NoSearch
  /\ app = AppPlaying

NextApp ==
  \/ SquareClicked
  \/ BotMove
  \/ EndGame
  \/ Restart
  \/ DifficultySelected

SpecApp == InitApp /\ [][NextApp]_vars

-----------------------------------------------------------------------------
(* Properties of the game-end tests *)

\* No pawn, rook or queen of either color is on the board and each side has
\* at most one knight or bishop.
InsufficientMaterial(b) ==
  /\ \A s \in Squares : At(b, s[1], s[2]).kind \notin {Pawn, Rook, Queen}
  /\ \A color \in Colors :
       Cardinality({s \in Squares : /\ At(b, s[1], s[2]).color = color
                                    /\ At(b, s[1], s[2]).kind \in {Knight, Bishop}})
         <= 1

C20_CheckmateExactly ==
  \A color \in Colors :
    /\ is_checkmate(board, color)
         <=> (is_in_check(board, color) /\ LegalMoves(board, color) = << >>)
    /\ ~(is_checkmate(board, color) /\ is_stalemate(board, color))

\* The queen has just mated the king in the corner.
C20_Witness ==
  /\ last.kind = Queen
  /\ current_turn = Black
  /\ is_checkmate(board, Black)
  /\ ~is_stalemate(board, Black)
  /\ generate_all_moves(board, Black) # << >>

\* The state the application is in after Message::Restart:
\* ChessApp::default().
Restarted ==
  /\ board' = BoardNew
  /\ current_turn' = White
  /\ app'.state = "SelectingDifficulty"

\* C30: once the state of the application is GameOver, a message handled
\* by update either leaves the board, the turn and the state GameOver as
\* they are, or is the Restart that puts the game back to Board::new() with
\* White to move.
C30_GameOverIsTerminal ==
  [][ app.state = "GameOver"
        => \/ /\ board' = board
              /\ current_turn' = current_turn
              /\ app'.state = "GameOver"
           \/ Restarted ]_vars

=============================================================================
